---- MODULE Spec2Model ----
(***************************************************************************)
(* Model of the lan-chat relay server (src/index.js): one Bun.serve        *)
(* process holding an admin slot, a user map, a cached admin key and an id *)
(* counter, driven by the fetch (/ws upgrade), open, message and close     *)
(* handlers.                                                               *)
(***************************************************************************)
EXTENDS Integers, Sequences, FiniteSets, TLC

(* ------------------------------ bounds --------------------------------- *)
\* number of /ws upgrade requests the model follows
MaxConns == 3

Ids == 1..MaxConns

(* --------------------------- JavaScript values -------------------------- *)
\* the null stored in adminWs
NoWs == 0

\* string-valued fields: "undefined" stands for a missing field, "null" for
\* the JavaScript null
Absent == "undefined"
Null == "null"

\* number-or-string valued fields (targetId, senderId, userId)
UndefV == [t |-> "undefined", v |-> 0]
Num(n) == [t |-> "number", v |-> n]
Str(n) == [t |-> "string", v |-> n]   \* the decimal string of n

\* JavaScript truthiness of a key value / of an id value
TruthyKey(k) == k \notin {Absent, Null, ""}
TruthyVal(x) == \/ x.t = "string"
                \/ x.t = "number" /\ x.v # 0

(* ------------------------------ envelopes ------------------------------- *)
NoText == [text |-> Absent, id |-> UndefV]

Blank == [type |-> Absent, key |-> Absent, targetId |-> UndefV,
          senderId |-> UndefV, payload |-> Absent, role |-> Absent,
          userId |-> UndefV, message |-> NoText]

Keys == {Absent, Null, "", "K1", "K2"}
TargetIds == {UndefV, Str(2), Num(2), Num(3)}
SenderIds == {UndefV, Num(1)}
Payloads == {"X"}
\* a payload that is a JSON number: the digits of 2^53 + 1
NumberPayloads == {"9007199254740993"}

SetKeyEnvelopes == {[Blank EXCEPT !.type = "SET_ADMIN_KEY", !.key = k] : k \in Keys}
RequestEnvelopes == {[Blank EXCEPT !.type = "REQUEST_ADMIN_KEY"]}
\* PUBLIC_KEY is tried with every targetId; MESSAGE with targetId 2, with and
\* without a client-chosen senderId
MessageTargetIds == {Num(2)}
ForwardEnvelopes ==
    {[Blank EXCEPT !.type = "PUBLIC_KEY", !.targetId = t, !.payload = p] :
        t \in TargetIds, p \in Payloads}
    \cup {[Blank EXCEPT !.type = "MESSAGE", !.targetId = t, !.senderId = s, !.payload = p] :
        t \in MessageTargetIds, s \in SenderIds, p \in Payloads}
    \cup {[Blank EXCEPT !.type = "PUBLIC_KEY", !.payload = p] : p \in NumberPayloads}
OtherEnvelopes == {[Blank EXCEPT !.type = "PING"]}
Envelopes == SetKeyEnvelopes \cup RequestEnvelopes \cup ForwardEnvelopes
                \cup OtherEnvelopes

\* raw frames: text that is not JSON, the JSON texts null and 42, and JSON
\* objects
RawMessages == {[json |-> "invalid", obj |-> Blank],
                [json |-> "null", obj |-> Blank],
                [json |-> "scalar", obj |-> Blank]}
               \cup {[json |-> "object", obj |-> e] : e \in Envelopes}
NoRaw == [json |-> "none", obj |-> Blank]

\* the value JSON.parse gives a number token: the nearest IEEE-754 double
\* (2^53 + 1 is not representable and rounds to 2^53); strings are kept
NumberValue(tok) ==
    IF tok = "9007199254740993" THEN "9007199254740992" ELSE tok

\* JSON.parse: throws on invalid text; otherwise the parsed value.  Reading
\* .type of null throws, of a number yields undefined.
JSONparse(raw) ==
    [throws |-> raw.json = "invalid",
     isNull |-> raw.json = "null",
     val |-> IF raw.json = "object"
             THEN [raw.obj EXCEPT !.payload = NumberValue(@)]
             ELSE Blank]

\* JSON.stringify of an object: every defined field, unchanged
JSONstringify(obj) == obj

(* -------------------------------- state --------------------------------- *)
VARIABLES
    adminLongTermPublicKey,  \* cached admin key
    adminWs,                 \* id of the admin connection, NoWs when null
    userConnections,         \* Map keys in insertion order
    adminConnections,        \* Map keys
    nextWsId,                \* id counter
    ws,                      \* per connection: channel state and ws.data.role
    sent,                    \* send calls made by the last handler, in order
    failed,                  \* the last handler threw
    ev,                      \* the last event dispatched
    keyAcked,                \* history: some SET_ADMIN_KEY was acknowledged
    newUserSeen              \* history: <<a, u>> when a was sent NEW_USER of u

vars == <<adminLongTermPublicKey, adminWs, userConnections, adminConnections,
          nextWsId, ws, sent, failed, ev, keyAcked, newUserSeen>>

\* the server state the handlers read and write, as one record
Store == [key |-> adminLongTermPublicKey, adminWs |-> adminWs,
          users |-> userConnections, admins |-> adminConnections,
          ws |-> ws, sent |-> <<>>, failed |-> FALSE]

SeqToSet(s) == {s[k] : k \in 1..Len(s)}
Remove(s, x) == SelectSeq(s, LAMBDA y : y # x)

\* ws.send(JSON.stringify(msg)) on connection `to`
Send(st, to, msg) ==
    [st EXCEPT !.sent = Append(@, [to |-> to, msg |-> JSONstringify(msg)])]

(* ------------------------------- findPeer ------------------------------- *)
\* userConnections.get(targetId): Map keys are numbers, compared strictly
MapGet(users, targetId) ==
    IF targetId.t = "number" /\ targetId.v \in SeqToSet(users)
    THEN targetId.v ELSE NoWs

\* mutant: an explicit targetId is honoured whatever the sender's role
findPeer_anyRole(st, senderId, senderRole, targetId) ==
    IF TruthyVal(targetId)
    THEN MapGet(st.users, targetId)
    ELSE IF senderRole = "user" THEN st.adminWs
    ELSE NoWs

findPeer(st, senderId, senderRole, targetId) ==
    IF senderRole = "admin" /\ TruthyVal(targetId)
    THEN MapGet(st.users, targetId)
    ELSE IF senderRole = "user" THEN st.adminWs
    ELSE NoWs

(* ---------------------------- server messages --------------------------- *)
AdminLabel == [t |-> "label", v |-> 0]   \* the literal substituted for a falsy targetId

StatusRole(role) == [Blank EXCEPT !.type = "STATUS", !.role = role]
StatusKeyStored ==
    [Blank EXCEPT !.type = "STATUS", !.message = [text |-> "keyStored", id |-> UndefV]]
StatusAdminOffline ==
    [Blank EXCEPT !.type = "STATUS", !.message = [text |-> "adminOffline", id |-> UndefV]]
AdminKeyResponse(k) == [Blank EXCEPT !.type = "ADMIN_KEY_RESPONSE", !.key = k]
ErrorMsg(targetId) ==
    [Blank EXCEPT !.type = "ERROR",
                  !.message = [text |-> "targetNotFound",
                               id |-> IF TruthyVal(targetId) THEN targetId
                                      ELSE AdminLabel]]
\* mutant: the notice does not carry the new user's id
NewUser_noId(i) ==
    [Blank EXCEPT !.type = "NEW_USER",
                  !.message = [text |-> "userConnected", id |-> Num(i)]]

NewUser(i) ==
    [Blank EXCEPT !.type = "NEW_USER", !.userId = Num(i),
                  !.message = [text |-> "userConnected", id |-> Num(i)]]
UserLeft(i) ==
    [Blank EXCEPT !.type = "USER_LEFT", !.userId = Num(i),
                  !.message = [text |-> "userLeft", id |-> Num(i)]]

(* ----------------------------- close handler ---------------------------- *)
RECURSIVE close(_, _, _)

\* ws.close() called by the server on connection u: the channel is closed at
\* once; the runtime runs u's close handler either inside the call (nested)
\* or as a later event.
\* mutant: the channel is left open
WsClose_noop(st, u, nested) == st

WsClose(st, u, nested) ==
    IF nested
    THEN close([st EXCEPT !.ws[u].state = "closed"], u, nested)
    ELSE [st EXCEPT !.ws[u].state = "closing"]

\* userConnections.forEach(user => { user.ws.send(...); user.ws.close(); })
\* Map.forEach visits the live map: entries deleted before being reached are
\* skipped.
RECURSIVE forEachUser(_, _, _)
forEachUser(st, visited, nested) ==
    LET rest == SelectSeq(st.users, LAMBDA u : u \notin visited)
    IN  IF rest = <<>> THEN st
        ELSE LET u == Head(rest)
                 s1 == Send(st, u, StatusAdminOffline)
                 s2 == WsClose(s1, u, nested)
             IN  forEachUser(s2, visited \cup {u}, nested)

\* mutant: every close event empties the admin slot
close_clearsAdmin(st, i, nested) ==
    IF i = st.adminWs
    THEN LET s1 == forEachUser(st, {}, nested)
         IN  [s1 EXCEPT !.adminWs = NoWs, !.admins = @ \ {i}, !.users = <<>>]
    ELSE LET s1 == [st EXCEPT !.users = Remove(@, i)]
             s2 == IF s1.adminWs # NoWs
                   THEN Send(s1, s1.adminWs, UserLeft(i))
                   ELSE s1
         IN  [s2 EXCEPT !.adminWs = NoWs]

\* mutant: the admin's close event does not clear the user map
close_noClear(st, i, nested) ==
    IF i = st.adminWs
    THEN LET s1 == forEachUser(st, {}, nested)
         IN  [s1 EXCEPT !.adminWs = NoWs, !.admins = @ \ {i}]
    ELSE LET s1 == [st EXCEPT !.users = Remove(@, i)]
         IN  IF s1.adminWs # NoWs
             THEN Send(s1, s1.adminWs, UserLeft(i))
             ELSE s1

\* mutant: when the admin leaves, the oldest user takes over the admin slot
close_promotesUser(st, i, nested) ==
    IF i = st.adminWs
    THEN IF st.users # <<>>
         THEN LET u == Head(st.users)
              IN  [st EXCEPT !.adminWs = u, !.ws[u].role = "admin",
                             !.admins = (@ \ {i}) \cup {u},
                             !.users = Tail(@)]
         ELSE [st EXCEPT !.adminWs = NoWs, !.admins = @ \ {i}]
    ELSE LET s1 == [st EXCEPT !.users = Remove(@, i)]
         IN  IF s1.adminWs # NoWs
             THEN Send(s1, s1.adminWs, UserLeft(i))
             ELSE s1

\* mutant: a user's close event empties the whole user map
close_userClearsAll(st, i, nested) ==
    IF i = st.adminWs
    THEN LET s1 == forEachUser(st, {}, nested)
         IN  [s1 EXCEPT !.adminWs = NoWs, !.admins = @ \ {i}, !.users = <<>>]
    ELSE LET s1 == [st EXCEPT !.users = <<>>]
         IN  IF s1.adminWs # NoWs
             THEN Send(s1, s1.adminWs, UserLeft(i))
             ELSE s1

close(st, i, nested) ==
    IF i = st.adminWs
    THEN LET s1 == forEachUser(st, {}, nested)
         IN  [s1 EXCEPT !.adminWs = NoWs, !.admins = @ \ {i}, !.users = <<>>]
    ELSE LET s1 == [st EXCEPT !.users = Remove(@, i)]
         IN  IF s1.adminWs # NoWs
             THEN Send(s1, s1.adminWs, UserLeft(i))
             ELSE s1

(* ------------------------------ open handler ---------------------------- *)
\* mutant: the role is decided by whether any user is registered
assignRole_byUsers(st, i) == IF st.users # <<>> THEN "user" ELSE "admin"

\* mutant: only the first id ever issued becomes admin
assignRole_firstId(st, i) == IF i = 1 THEN "admin" ELSE "user"

\* ws.data.role = adminWs ? 'user' : 'admin'
assignRole(st, i) == IF st.adminWs # NoWs THEN "user" ELSE "admin"

\* mutant: adminWs = ws is executed for every new connection
open_slotAlways(st, i, nested) ==
    LET role == assignRole(st, i)
        s0 == [st EXCEPT !.ws[i].role = role]
    IN  IF role = "admin"
        THEN LET s1 == [s0 EXCEPT !.adminWs = i]
                 s2 == Send(s1, i, StatusRole("admin"))
             IN  [s2 EXCEPT !.admins = @ \cup {i}]
        ELSE LET s1 == [s0 EXCEPT !.users = Append(@, i)]
                 s2 == Send(s1, i, StatusRole("user"))
                 s3 == Send(s2, s2.adminWs, NewUser(i))
             IN  [s3 EXCEPT !.adminWs = i]

open(st, i, nested) ==
    LET role == assignRole(st, i)
        s0 == [st EXCEPT !.ws[i].role = role]
    IN  IF role = "admin"
        THEN IF s0.adminWs # NoWs
             THEN WsClose(s0, i, nested)
             ELSE LET s1 == [s0 EXCEPT !.adminWs = i]
                      s2 == Send(s1, i, StatusRole("admin"))
                  IN  [s2 EXCEPT !.admins = @ \cup {i}]
        ELSE LET s1 == [s0 EXCEPT !.users =
                            IF i \in SeqToSet(@) THEN @ ELSE Append(@, i)]
                 s2 == Send(s1, i, StatusRole("user"))
             IN  IF s2.adminWs # NoWs
                 THEN Send(s2, s2.adminWs, NewUser(i))
                 ELSE s2

(* ----------------------------- message handler -------------------------- *)
\* mutant: the sender's role is not checked
setAdminKey_anyRole(st, senderRole, parsed) ==
    IF ~TruthyKey(st.key)
    THEN LET s1 == [st EXCEPT !.key = parsed.key]
         IN  IF s1.adminWs = NoWs
             THEN [s1 EXCEPT !.failed = TRUE]
             ELSE Send(s1, s1.adminWs, StatusKeyStored)
    ELSE st

setAdminKey(st, senderRole, parsed) ==
    IF senderRole = "admin" /\ ~TruthyKey(st.key)
    THEN LET s1 == [st EXCEPT !.key = parsed.key]
         IN  IF s1.adminWs = NoWs
             THEN [s1 EXCEPT !.failed = TRUE]   \* null.send throws
             ELSE Send(s1, s1.adminWs, StatusKeyStored)
    ELSE st

\* mutant: senderId is stamped only when the client sent none
forward_keepsClientId(st, i, senderRole, parsed) ==
    LET targetId == parsed.targetId
        peerWs == findPeer(st, i, senderRole, targetId)
    IN  IF peerWs # NoWs
        THEN Send(st, peerWs,
                  IF parsed.senderId = UndefV
                  THEN [parsed EXCEPT !.senderId = Num(i)]
                  ELSE parsed)
        ELSE Send(st, i, ErrorMsg(targetId))

\* mutant: an unresolved message is dropped without an ERROR
forward_silent(st, i, senderRole, parsed) ==
    LET targetId == parsed.targetId
        peerWs == findPeer(st, i, senderRole, targetId)
    IN  IF peerWs # NoWs
        THEN Send(st, peerWs, [parsed EXCEPT !.senderId = Num(i)])
        ELSE st

forward(st, i, senderRole, parsed) ==
    LET targetId == parsed.targetId
        peerWs == findPeer(st, i, senderRole, targetId)
    IN  IF peerWs # NoWs
        THEN Send(st, peerWs, [parsed EXCEPT !.senderId = Num(i)])
        ELSE Send(st, i, ErrorMsg(targetId))

message(st, i, raw) ==
    LET p == JSONparse(raw)
        parsed == p.val
        senderRole == st.ws[i].role
    IN  IF p.throws THEN st                           \* caught, logged
        ELSE IF p.isNull THEN [st EXCEPT !.failed = TRUE]  \* null.type throws
        ELSE IF parsed.type = "SET_ADMIN_KEY"
             THEN setAdminKey(st, senderRole, parsed)
        ELSE IF parsed.type = "REQUEST_ADMIN_KEY" /\ TruthyKey(st.key)
             THEN Send(st, i, AdminKeyResponse(st.key))
        ELSE IF parsed.type \in {"PUBLIC_KEY", "MESSAGE"}
             THEN forward(st, i, senderRole, parsed)
        ELSE st

(* -------------------------------- events -------------------------------- *)
Init ==
    /\ adminLongTermPublicKey = Null
    /\ adminWs = NoWs
    /\ userConnections = <<>>
    /\ adminConnections = {}
    /\ nextWsId = 1
    /\ ws = [i \in Ids |-> [state |-> "none", role |-> "none"]]
    /\ sent = <<>>
    /\ failed = FALSE
    /\ ev = [kind |-> "init", id |-> NoWs, raw |-> NoRaw]
    /\ keyAcked = FALSE
    /\ newUserSeen = {}

Commit(st, e) ==
    /\ adminLongTermPublicKey' = st.key
    /\ adminWs' = st.adminWs
    /\ userConnections' = st.users
    /\ adminConnections' = st.admins
    /\ ws' = st.ws
    /\ sent' = st.sent
    /\ failed' = st.failed
    /\ ev' = e
    /\ keyAcked' = (keyAcked \/ \E k \in 1..Len(st.sent) :
                                    st.sent[k].msg = StatusKeyStored)
    /\ newUserSeen' = newUserSeen \cup
            {<<st.sent[k].to, st.sent[k].msg.userId.v>> :
                k \in {n \in 1..Len(st.sent) : st.sent[n].msg.type = "NEW_USER"}}

\* mutant: the counter is read but not advanced
postIncrement_stuck(n) == [id |-> n, next |-> n]

\* const id = nextWsId++
postIncrement(n) == [id |-> n, next |-> n + 1]

\* fetch on /ws: take the next id, then upgrade (which may fail)
Fetch ==
    /\ nextWsId <= MaxConns
    /\ \E success \in BOOLEAN :
          LET a == postIncrement(nextWsId)
              id == a.id
              st == [Store EXCEPT !.ws[id].state =
                        IF success THEN "connecting" ELSE "rejected"]
          IN  /\ nextWsId' = a.next
              /\ Commit(st, [kind |-> "fetch", id |-> id, raw |-> NoRaw])

Open(i) ==
    /\ ws[i].state = "connecting"
    /\ \E nested \in BOOLEAN :
          Commit(open([Store EXCEPT !.ws[i].state = "open"], i, nested),
                 [kind |-> "open", id |-> i, raw |-> NoRaw])
    /\ UNCHANGED nextWsId

Message(i) ==
    /\ ws[i].state = "open"
    /\ \E raw \in RawMessages :
          Commit(message(Store, i, raw),
                 [kind |-> "message", id |-> i, raw |-> raw])
    /\ UNCHANGED nextWsId

\* the close event of connection i: its client went away, or the server
\* closed it earlier and the handler was deferred
Close(i) ==
    /\ ws[i].state \in {"open", "closing"}
    /\ \E nested \in BOOLEAN :
          Commit(close([Store EXCEPT !.ws[i].state = "closed"], i, nested),
                 [kind |-> "close", id |-> i, raw |-> NoRaw])
    /\ UNCHANGED nextWsId

Next ==
    \/ Fetch
    \/ \E i \in Ids : Open(i)
    \/ \E i \in Ids : Message(i)
    \/ \E i \in Ids : Close(i)

Spec == Init /\ [][Next]_vars

(* ------------------------------ vocabulary ------------------------------ *)
IsOpen(i) == ws[i].state = "open"
OpenAdmins == {i \in Ids : IsOpen(i) /\ ws[i].role = "admin"}
OpenUsers == {i \in Ids : IsOpen(i) /\ ws[i].role = "user"}
Users == SeqToSet(userConnections)

\* the send calls of the last handler addressed to connection i
SendsTo(i) == {k \in 1..Len(sent) : sent[k].to = i}
SendsOfType(ty) == {k \in 1..Len(sent) : sent[k].msg.type = ty}

(* -------------------------------- C1 ------------------------------------ *)
\* C1: in every reachable state at most one open connection has role admin,
\* and any open admin is the one connection the admin slot refers to.
C1_AtMostOneAdmin ==
    /\ Cardinality(OpenAdmins) <= 1
    /\ \A i \in OpenAdmins : adminWs = i

\* an admin that connected after an earlier admin left, with a user beside it
C1_Witness ==
    /\ OpenAdmins # {}
    /\ OpenUsers # {}
    /\ \E j \in Ids : ws[j].state = "closed" /\ ws[j].role = "admin"

(* -------------------------------- C2 ------------------------------------ *)
\* C2: on every open event the new connection gets role admin iff no open
\* admin connection exists at that moment, role user otherwise, and an
\* existing admin stays in the admin slot.
C2_RoleIffNoAdmin ==
    [][\A i \in Ids :
          (ws[i].state = "connecting" /\ ev'.kind = "open" /\ ev'.id = i) =>
              /\ ws'[i].role = (IF OpenAdmins = {} THEN "admin" ELSE "user")
              /\ \A a \in OpenAdmins : adminWs' = a /\ ws'[a] = ws[a]]_vars

\* the connection opened last became admin after the previous admin had left
C2_Witness ==
    /\ ev.kind = "open"
    /\ ws[ev.id].role = "admin"
    /\ adminWs = ev.id
    /\ \E j \in Ids : ws[j].state = "closed" /\ ws[j].role = "admin"

(* -------------------------------- C3 ------------------------------------ *)
\* C3: once a SET_ADMIN_KEY has been acknowledged, no later step changes the
\* cached key.
C3_FirstWriteWins ==
    [][keyAcked => adminLongTermPublicKey' = adminLongTermPublicKey]_vars

(* -------------------------------- C4 ------------------------------------ *)
IsMessageEvent == ev.kind = "message" /\ ev.raw.json = "object"
IsForwardEvent ==
    IsMessageEvent /\ ev.raw.obj.type \in {"PUBLIC_KEY", "MESSAGE"}

\* C4: when a PUBLIC_KEY or MESSAGE was forwarded (not answered with ERROR),
\* exactly one send happened; from a user it went to the connected admin
\* whatever the targetId, from the admin it went to the registered user whose
\* id is the targetId; the sender got nothing.
C4_SingleRecipient ==
    (IsForwardEvent /\ SendsOfType("ERROR") = {}) =>
        /\ Len(sent) = 1
        /\ sent[1].msg.type = ev.raw.obj.type
        /\ sent[1].to # ev.id
        /\ ws[ev.id].role = "user" =>
              /\ sent[1].to = adminWs
              /\ sent[1].to \in OpenAdmins
        /\ ws[ev.id].role = "admin" =>
              /\ sent[1].to \in Users
              /\ sent[1].to \in OpenUsers
              /\ ev.raw.obj.targetId = Num(sent[1].to)

\* a user named another open user as targetId and the admin got the message
C4_Witness ==
    /\ IsForwardEvent
    /\ ws[ev.id].role = "user"
    /\ \E u \in OpenUsers : u # ev.id /\ ev.raw.obj.targetId = Num(u)
    /\ Len(sent) = 1
    /\ sent[1].to = adminWs
    /\ sent[1].msg.type = "MESSAGE"

(* -------------------------------- C5 ------------------------------------ *)
\* no recipient: a user with no open admin, or the admin with a targetId that
\* is missing or is no registered user's id
NoRecipient(i, e) ==
    \/ ws[i].role = "user" /\ OpenAdmins = {}
    \/ /\ ws[i].role = "admin"
       /\ \/ e.targetId = UndefV
          \/ \A u \in Users : e.targetId # Num(u)

\* C5: a PUBLIC_KEY or MESSAGE with no recipient makes exactly one send, an
\* ERROR to the sender; the sender stays open, the handler does not fail,
\* and the admin slot, the user map and the key cache are unchanged.
C5_ErrorToSenderOnly ==
    [][\A i \in Ids :
          (/\ IsOpen(i)
           /\ ev'.kind = "message" /\ ev'.id = i /\ ev'.raw.json = "object"
           /\ ev'.raw.obj.type \in {"PUBLIC_KEY", "MESSAGE"}
           /\ NoRecipient(i, ev'.raw.obj)) =>
              /\ Len(sent') = 1
              /\ sent'[1].to = i
              /\ sent'[1].msg.type = "ERROR"
              /\ ~failed'
              /\ ws' = ws
              /\ adminWs' = adminWs
              /\ userConnections' = userConnections
              /\ adminLongTermPublicKey' = adminLongTermPublicKey]_vars

\* the admin named an id that is no registered user while a user is
\* connected, and got the ERROR
C5_Witness ==
    /\ IsForwardEvent
    /\ ev.id = adminWs
    /\ OpenUsers # {}
    /\ ev.raw.obj.targetId.t = "number"
    /\ ev.raw.obj.targetId.v \notin Users
    /\ Len(sent) = 1
    /\ sent[1].to = ev.id
    /\ sent[1].msg.type = "ERROR"

(* -------------------------------- C6 ------------------------------------ *)
\* C6: the close event of the admin sends every user registered at that
\* moment exactly one message, the admin-offline STATUS, closes that user's
\* channel, and leaves the admin slot and the user map empty.
C6_AdminCloseCascade ==
    [][\A a \in Ids :
          (a \in OpenAdmins /\ ev'.kind = "close" /\ ev'.id = a) =>
              /\ \A u \in Users :
                    /\ Cardinality({k \in 1..Len(sent') : sent'[k].to = u}) = 1
                    /\ \E k \in 1..Len(sent') :
                          sent'[k] = [to |-> u, msg |-> StatusAdminOffline]
                    /\ ws'[u].state \in {"closing", "closed"}
              /\ adminWs' = NoWs
              /\ userConnections' = <<>>]_vars

\* the admin left while two users were registered: both were told and closed
C6_Witness ==
    /\ ev.kind = "close"
    /\ ws[ev.id].role = "admin"
    /\ Cardinality({sent[k].to : k \in SendsOfType("STATUS")}) >= 2
    /\ \A k \in SendsOfType("STATUS") : ws[sent[k].to].state \in {"closing", "closed"}
    /\ adminWs = NoWs
    /\ userConnections = <<>>

(* -------------------------------- C7 ------------------------------------ *)
\* C7: the close event of a user removes that user's entry from the user map
\* and nothing else, sends the open admin (if any) exactly one USER_LEFT with
\* that user's id and sends nothing to anybody else, and leaves the admin
\* slot, the key cache and every other connection as they were.
C7_UserCloseFrame ==
    [][\A i \in Ids :
          (/\ ws[i].role = "user" /\ ws[i].state \in {"open", "closing"}
           /\ ev'.kind = "close" /\ ev'.id = i) =>
              /\ userConnections' = Remove(userConnections, i)
              /\ \A a \in OpenAdmins : sent' = <<[to |-> a, msg |-> UserLeft(i)]>>
              /\ OpenAdmins = {} => sent' = <<>>
              /\ adminWs' = adminWs
              /\ adminLongTermPublicKey' = adminLongTermPublicKey
              /\ ws'[i].state = "closed"
              /\ \A j \in Ids \ {i} : ws'[j] = ws[j]]_vars

\* a user left while the admin and another user stayed connected
C7_Witness ==
    /\ ev.kind = "close"
    /\ ws[ev.id].role = "user"
    /\ adminWs \in OpenAdmins
    /\ sent = <<[to |-> adminWs, msg |-> UserLeft(ev.id)]>>
    /\ Users # {}
    /\ Users \subseteq OpenUsers

(* -------------------------------- C8 ------------------------------------ *)
\* a key is cached: the cache holds a value stored by SET_ADMIN_KEY (a string,
\* the empty one included), not null and not undefined
KeyCached ==
    adminLongTermPublicKey \notin {Null, Absent}

\* C8: REQUEST_ADMIN_KEY from any connection: with a key cached the requester
\* and nobody else gets one ADMIN_KEY_RESPONSE carrying the cached key, with
\* no key cached nothing is sent; admin slot, user map and key cache are
\* unchanged.
C8_KeyRequest ==
    [][\A i \in Ids :
          (/\ IsOpen(i)
           /\ ev'.kind = "message" /\ ev'.id = i /\ ev'.raw.json = "object"
           /\ ev'.raw.obj.type = "REQUEST_ADMIN_KEY") =>
              /\ KeyCached =>
                    sent' = <<[to |-> i,
                               msg |-> AdminKeyResponse(adminLongTermPublicKey)]>>
              /\ ~KeyCached => sent' = <<>>
              /\ adminWs' = adminWs
              /\ userConnections' = userConnections
              /\ adminLongTermPublicKey' = adminLongTermPublicKey]_vars

(* -------------------------------- C9 ------------------------------------ *)
\* C9: a SET_ADMIN_KEY from a user, or from the admin while a key is cached,
\* sends nothing and leaves the key cache, the admin slot and the user map
\* unchanged.
C9_SetKeyMisuseIgnored ==
    [][\A i \in Ids :
          (/\ IsOpen(i)
           /\ ev'.kind = "message" /\ ev'.id = i /\ ev'.raw.json = "object"
           /\ ev'.raw.obj.type = "SET_ADMIN_KEY"
           /\ \/ ws[i].role = "user"
              \/ ws[i].role = "admin" /\ KeyCached) =>
              /\ sent' = <<>>
              /\ adminLongTermPublicKey' = adminLongTermPublicKey
              /\ adminWs' = adminWs
              /\ userConnections' = userConnections]_vars

(* -------------------------------- C10 ----------------------------------- *)
\* C10: after an open event, a new admin has been sent exactly one message,
\* STATUS with role admin, and nobody else anything; a new user is in the
\* user map and has been sent exactly one message, STATUS with role user,
\* and the admin has been sent exactly one NEW_USER with the new user's id;
\* nobody else has been sent anything.
C10_ConnectNotifications ==
    ev.kind = "open" =>
        LET i == ev.id
        IN  /\ ws[i].role = "admin" =>
                  /\ sent = <<[to |-> i, msg |-> StatusRole("admin")]>>
                  /\ i \notin Users
            /\ ws[i].role = "user" =>
                  /\ i \in Users
                  /\ Len(sent) = 2
                  /\ \E a \in OpenAdmins :
                        {sent[k] : k \in 1..Len(sent)} =
                            {[to |-> i, msg |-> StatusRole("user")],
                             [to |-> a, msg |-> NewUser(i)]}
                  /\ \A k \in SendsOfType("NEW_USER") : sent[k].msg.userId = Num(i)

\* a second user connected: it, and the admin, were notified, the first user
\* was not
C10_Witness ==
    /\ ev.kind = "open"
    /\ ws[ev.id].role = "user"
    /\ \E u \in OpenUsers : u # ev.id /\ SendsTo(u) = {}
    /\ SendsTo(adminWs) # {}
    /\ SendsTo(ev.id) # {}

(* -------------------------------- C11 ----------------------------------- *)
\* C11: the envelope delivered for a forwarded PUBLIC_KEY or MESSAGE is the
\* inbound envelope with senderId set: every other field has the value it
\* had in the frame the client sent.
C11_RoundTrip ==
    (IsForwardEvent /\ SendsOfType("ERROR") = {}) =>
        /\ Len(sent) = 1
        /\ sent[1].msg = [ev.raw.obj EXCEPT !.senderId = sent[1].msg.senderId]

(* -------------------------------- C12 ----------------------------------- *)
KnownTypes == {"SET_ADMIN_KEY", "REQUEST_ADMIN_KEY", "PUBLIC_KEY", "MESSAGE"}

\* a frame that is no JSON, JSON that is no object (null, a number, ...), or
\* an object whose type is none of the four handled ones
Malformed(raw) ==
    \/ raw.json \in {"invalid", "null", "scalar"}
    \/ raw.json = "object" /\ raw.obj.type \notin KnownTypes

\* C12: a malformed frame makes no send, changes no state, does not make the
\* handler fail, and leaves the sender's connection open.
C12_MalformedDropped ==
    [][\A i \in Ids :
          (/\ IsOpen(i)
           /\ ev'.kind = "message" /\ ev'.id = i
           /\ Malformed(ev'.raw)) =>
              /\ sent' = <<>>
              /\ ~failed'
              /\ ws' = ws
              /\ adminWs' = adminWs
              /\ userConnections' = userConnections
              /\ adminConnections' = adminConnections
              /\ adminLongTermPublicKey' = adminLongTermPublicKey
              /\ nextWsId' = nextWsId]_vars

(* -------------------------------- C13 ----------------------------------- *)
\* the ids handed out so far are exactly 1 .. nextWsId - 1, and no id is both
\* in the admin slot and in the user map
IdsInOrder ==
    /\ ev.kind = "init" => nextWsId = 1
    /\ \A i \in Ids : ws[i].state # "none" <=> i < nextWsId
    /\ adminWs \notin Users

\* C13: the counter starts at 1; every upgrade request takes the counter's
\* value, which no connection has had before, and advances it by one; no
\* other event changes the counter or gives an id to a connection; an id is
\* in at most one of the admin slot and the user map.
C13_UniqueIncreasingIds ==
    [][/\ IdsInOrder
       /\ IdsInOrder'
       /\ ev'.kind = "fetch" =>
             /\ ev'.id = nextWsId
             /\ ws[ev'.id].state = "none"
             /\ nextWsId' = nextWsId + 1
             /\ \A j \in Ids \ {ev'.id} : ws'[j] = ws[j]
       /\ ev'.kind # "fetch" =>
             /\ nextWsId' = nextWsId
             /\ \A i \in Ids : ws[i].state = "none" <=> ws'[i].state = "none"]_vars

\* three ids in use: a failed upgrade, a closed connection and the admin
C13_Witness ==
    /\ \E i, j \in Ids :
          /\ ws[i].state = "rejected"
          /\ ws[j].state = "closed"
    /\ adminWs \in OpenAdmins
    /\ nextWsId >= 4

(* -------------------------------- C14 ----------------------------------- *)
\* C14: between handlers the user map holds exactly the open connections
\* with role user and the admin slot exactly the open connection with role
\* admin; a connection whose channel is closed, its close event handled or
\* not, is in neither table.
C14_RegistryMatchesConnections ==
    /\ Users = OpenUsers
    /\ OpenAdmins = (IF adminWs = NoWs THEN {} ELSE {adminWs})
    /\ \A i \in Ids :
          ws[i].state \in {"closing", "closed"} => i \notin Users /\ i # adminWs

\* the admin left, a user closed by the cascade still awaits its close event,
\* and a new admin has connected
C14_Witness ==
    /\ \E u \in Ids : ws[u].state = "closing" /\ ws[u].role = "user"
    /\ adminWs \in OpenAdmins
    /\ Users = {}

(* -------------------------------- C15 ----------------------------------- *)
\* C15: a message event of any kind leaves the admin slot, the user map, the
\* id counter and every connection's state and role unchanged; the key cache
\* changes only when the admin's SET_ADMIN_KEY is accepted and acknowledged;
\* at most one send goes to the sender and at most one to another
\* connection; a PUBLIC_KEY or MESSAGE makes exactly one send.
C15_MessageFrame ==
    [][\A i \in Ids :
          (IsOpen(i) /\ ev'.kind = "message" /\ ev'.id = i) =>
              /\ adminWs' = adminWs
              /\ userConnections' = userConnections
              /\ adminConnections' = adminConnections
              /\ nextWsId' = nextWsId
              /\ ws' = ws
              /\ adminLongTermPublicKey' # adminLongTermPublicKey =>
                    /\ ev'.raw.json = "object"
                    /\ ev'.raw.obj.type = "SET_ADMIN_KEY"
                    /\ ws[i].role = "admin"
                    /\ adminLongTermPublicKey' = ev'.raw.obj.key
                    /\ sent' = <<[to |-> i, msg |-> StatusKeyStored]>>
              /\ Cardinality({k \in 1..Len(sent') : sent'[k].to = i}) <= 1
              /\ Cardinality({k \in 1..Len(sent') : sent'[k].to # i}) <= 1
              /\ (/\ ev'.raw.json = "object"
                  /\ ev'.raw.obj.type \in {"PUBLIC_KEY", "MESSAGE"}) =>
                    Len(sent') = 1]_vars

\* the admin's SET_ADMIN_KEY was accepted while a user was connected
C15_Witness ==
    /\ IsMessageEvent
    /\ ev.raw.obj.type = "SET_ADMIN_KEY"
    /\ ev.id = adminWs
    /\ adminLongTermPublicKey = "K1"
    /\ sent = <<[to |-> ev.id, msg |-> StatusKeyStored]>>
    /\ Users # {}

(* -------------------------------- C16 ----------------------------------- *)
\* the channel-state changes a connection may make in one step
Lifecycle ==
    {<<"none", "connecting">>, <<"none", "rejected">>,
     <<"connecting", "open">>,
     <<"open", "closing">>, <<"open", "closed">>, <<"closing", "closed">>}

\* C16: every connection moves Connecting -> open (as admin or as user) ->
\* closed and never back; its role is set when it opens and never changes
\* afterwards; a closed connection is never put into the admin slot or the
\* user map again.
C16_LifecycleAndRole ==
    [][\A i \in Ids :
          /\ ws'[i].state # ws[i].state => <<ws[i].state, ws'[i].state>> \in Lifecycle
          /\ ws[i].role # "none" => ws'[i].role = ws[i].role
          /\ ws'[i].role # "none" <=> ws'[i].state \in {"open", "closing", "closed"}
          /\ ws[i].state = "closed" =>
                /\ ws'[i] = ws[i]
                /\ adminWs' # i
                /\ i \notin SeqToSet(userConnections')]_vars

\* the admin has left and the slot is free; a user of that admin is still a
\* user, and closed
C16_Witness ==
    /\ adminWs = NoWs
    /\ \E a \in Ids : ws[a].state = "closed" /\ ws[a].role = "admin"
    /\ \E u \in Ids : ws[u].state = "closed" /\ ws[u].role = "user"
    /\ ev.kind = "close"

(* -------------------------------- C18 ----------------------------------- *)
\* C18: every USER_LEFT a handler sends goes to a connection that is open,
\* has role admin, and was earlier sent NEW_USER for the same user id.
C18_UserLeftToKnownAdmin ==
    \A k \in SendsOfType("USER_LEFT") :
        /\ sent[k].to \in OpenAdmins
        /\ <<sent[k].to, sent[k].msg.userId.v>> \in newUserSeen

(* -------------------------------- C19 ----------------------------------- *)
\* the frame of envelope e with the client-chosen senderId s
WithSenderId(e, s) == [json |-> "object", obj |-> [e EXCEPT !.senderId = s]]

\* C19: the senderId of every forwarded envelope is the id of the connection
\* that sent it, whatever senderId the client put in, and the sends a
\* PUBLIC_KEY or MESSAGE frame caused are those the same frame without a
\* client-chosen senderId causes.
C19_SenderIdAuthentic ==
    IsForwardEvent =>
        /\ SendsOfType("ERROR") = {} =>
              \A k \in 1..Len(sent) : sent[k].msg.senderId = Num(ev.id)
        /\ sent = message(Store, ev.id, WithSenderId(ev.raw.obj, UndefV)).sent

\* a connection other than 1 put senderId 1 in its MESSAGE; the recipient
\* saw the sender's real id
C19_Witness ==
    /\ IsForwardEvent
    /\ ev.raw.obj.senderId = Num(1)
    /\ ev.id # 1
    /\ Len(sent) = 1
    /\ sent[1].to # ev.id
    /\ sent[1].msg.type = "MESSAGE"
    /\ sent[1].msg.senderId = Num(ev.id)

(* -------------------------------- C20 ----------------------------------- *)
\* C20: whenever a message of a connection with role admin has been handled,
\* the admin slot holds that very connection; the acknowledgment of an
\* accepted SET_ADMIN_KEY went to the sender and to nobody else, and handling
\* SET_ADMIN_KEY never failed on an empty slot.
C20_AckToSender ==
    (ev.kind = "message" /\ ws[ev.id].role = "admin") =>
        /\ adminWs = ev.id
        /\ \A k \in 1..Len(sent) :
              sent[k].msg = StatusKeyStored => sent[k].to = ev.id
        /\ (ev.raw.json = "object" /\ ev.raw.obj.type = "SET_ADMIN_KEY") => ~failed

\* a later admin of the run, after an earlier admin's connection closed, set a
\* key and got the acknowledgment
C20_Witness ==
    /\ IsMessageEvent
    /\ ev.raw.obj.type = "SET_ADMIN_KEY"
    /\ ws[ev.id].role = "admin"
    /\ sent = <<[to |-> ev.id, msg |-> StatusKeyStored]>>
    /\ \E a \in Ids : a # ev.id /\ ws[a].role = "admin" /\ ws[a].state = "closed"

====
